---- MODULE Spec2Model ----
(***************************************************************************)
(* Model of mapnik's feature.hpp: the shared attribute schema              *)
(* (context<std::map<std::string,std::size_t>>) and the records            *)
(* (feature_impl) built against it.                                        *)
(*                                                                         *)
(* Attribute names are the integers 1..NumNames; their numeric order       *)
(* stands for the lexicographic key order of std::map<std::string,...>.    *)
(* Attribute values are 0..MaxVal, where 0 stands for the default value    *)
(* (value_null) and 1..MaxVal for distinct non-null values.                *)
(***************************************************************************)
EXTENDS Integers, Sequences, FiniteSets, TLC

\* ---- bounds of the model ----
NumNames == 2
\* attribute names are 1..NumNames
MaxVal == 1
\* non-null attribute values are 1..MaxVal
MaxRecs == 2
\* at most this many feature_impl objects are constructed
MaxIndex == 1
\* add(name, index) and get(index) are called with index in 0..MaxIndex
MaxLen == 2
\* set_data is called with vectors of length 0..MaxLen
NumPushNames == 4
\* where the context is used alone, without features, names are 1..NumPushNames
MaxPush == 4
\* at most this many logged calls of context::push
MaxId == 1
\* features are constructed with an id in 0..MaxId
MaxCoord == 1
\* the corners of a geometry's envelope have coordinates in 0..MaxCoord
MaxGeoms == 2
\* at most this many geometries are added to a feature
MaxRaster == 1
\* the rasters a feature can be given are 1..MaxRaster
NumThreads == 2
\* threads 1..NumThreads call push, put_new and add on the one shared context
MaxCalls == 3
\* the threads make at most this many calls of push, put_new and add in all
\* the threads that call push on the one context are 1..NumThreads

Names   == 1..NumNames
\* static const value default_value  (a value_null)
default_value == 0
Values  == 0..MaxVal
Indices == 0..MaxIndex
\* mapnik::value_integer id
Ids     == 0..MaxId
Threads == 1..NumThreads
\* raster_ptr: 0 is the pointer that holds no raster
Rasters == 0..MaxRaster

VARIABLES
    mapping,   \* context::mapping_ : the name -> index map of the one shared context
    data,      \* data[r] is feature_impl::data_ of the r-th constructed feature
    logging,   \* history switch: TRUE when the calls of context::push are logged
    pushLog,   \* the logged calls of context::push so far: <<name, returned index>>
    last,      \* the last call made: its arguments, its result, and what it saw
    ids,       \* ids[r] is feature_impl::id_ of the r-th feature
    geoms,     \* geoms[r] is feature_impl::geom_cont_ of the r-th feature
    rasters,   \* rasters[r] is feature_impl::raster_ of the r-th feature
    serial,    \* TRUE when the callers serialize push with a lock of their own
    lock,      \* the thread that holds the callers' lock, 0 when it is free
    pc,        \* pc[t]: where thread t is in push: "idle", or "insert" after line 72
    arg,       \* arg[t]: the call thread t is in: op, and the name and value passed
    loc,       \* loc[t]: the local variable index of thread t's push
    corrupt,   \* TRUE once two threads have been in push together with no lock
    chain,     \* once corrupt: the pairs of the nodes made so far, in the order made
    calls,     \* the number of calls of push, put_new and add the threads have made
    added,     \* history: TRUE once a thread has called add
    skew,      \* what mapping_.size() returns minus the number of entries of mapping_
    crashed    \* TRUE when the process has died in an unsynchronized insert

\* the members of feature_impl other than data_
featVars == <<ids, geoms, rasters>>

\* the threads in push
threadVars == <<serial, lock, pc, arg, loc, corrupt, chain, calls, added,
               skew, crashed>>

vars == <<mapping, data, logging, pushLog, last, featVars, threadVars>>

\* ---------------------------------------------------------------------------
\* context<T>
\* ---------------------------------------------------------------------------

\* context::size(): mapping_.size()
size(m) == Cardinality(DOMAIN m)

\* mutant of insert: mapping_[name] = index, which overwrites a present key
insert_overwrite(m, name, index) ==
    [k \in DOMAIN m \cup {name} |-> IF k = name THEN index ELSE m[k]]

\* std::map::insert(std::make_pair(name, index)): a present key is kept as it is
insert(m, name, index) ==
    IF name \in DOMAIN m
    THEN m
    ELSE [k \in DOMAIN m \cup {name} |-> IF k = name THEN index ELSE m[k]]

\* mutant of push_ret: the size is read after the insertion
push_ret_after(m, name) == size(insert(m, name, size(m)))

\* mutant of push_ret: the index stored for the name is returned
push_ret_stored(m, name) == IF name \in DOMAIN m THEN m[name] ELSE size(m)

\* mutant of push_ret: the last index in use is returned
push_ret_last(m, name) == IF size(m) = 0 THEN 0 ELSE size(m) - 1

\* context::push: the index returned
push_ret(m, name) == size(m)

\* mutant of push_map: indices are counted from one
push_map_onebased(m, name) == insert(m, name, size(m) + 1)

\* context::push: mapping_ after the call
push_map(m, name) == insert(m, name, size(m))

\* context::add: mapping_ after the call
add(m, name, index) == insert(m, name, index)

\* ---------------------------------------------------------------------------
\* feature_impl
\* ---------------------------------------------------------------------------

\* mutant of ctor_data: one slot too many
ctor_data_extra(m) == [i \in 1..(size(m) + 1) |-> default_value]

\* feature_impl::feature_impl: data_(ctx_->mapping_.size()), all default values
ctor_data(m) == [i \in 1..size(m) |-> default_value]

\* mutant of put_ok: the bounds check is missing
put_ok_nobounds(m, d, key) == key \in DOMAIN m

\* feature_impl::put: the condition under which the value is stored
put_ok(m, d, key) == key \in DOMAIN m /\ m[key] < Len(d)

\* mutant of put: the value is stored in the first slot
put_front(m, d, key, val) ==
    IF put_ok(m, d, key)
    THEN [threw |-> FALSE, d |-> [d EXCEPT ![1] = val]]
    ELSE [threw |-> TRUE,  d |-> d]

\* feature_impl::put: data_ after the call and whether std::out_of_range was thrown
put(m, d, key, val) ==
    IF put_ok(m, d, key)
    THEN [threw |-> FALSE, d |-> [d EXCEPT ![m[key] + 1] = val]]
    ELSE [threw |-> TRUE,  d |-> d]

\* mutant of put_new: the value is appended whenever the new index is not in bounds
put_new_catchup(m, d, key, val) ==
    IF key \in DOMAIN m /\ m[key] < Len(d)
    THEN [m |-> m, d |-> [d EXCEPT ![m[key] + 1] = val]]
    ELSE LET index == push_ret(m, key)
         IN  [m |-> push_map(m, key),
              d |-> IF index >= Len(d) THEN Append(d, val) ELSE d]

\* mutant of put_new: the key is always registered, the slot it has is not written
put_new_register(m, d, key, val) ==
    LET index == push_ret(m, key)
    IN  [m |-> push_map(m, key),
         d |-> IF index = Len(d) THEN Append(d, val) ELSE d]

\* feature_impl::put_new: mapping_ and data_ after the call
put_new(m, d, key, val) ==
    IF key \in DOMAIN m /\ m[key] < Len(d)
    THEN [m |-> m, d |-> [d EXCEPT ![m[key] + 1] = val]]
    ELSE LET index == push_ret(m, key)
         IN  [m |-> push_map(m, key),
              d |-> IF index = Len(d) THEN Append(d, val) ELSE d]

\* mutant of has_key: true only when the slot is within data_
has_key_inbounds(m, d, key) == key \in DOMAIN m /\ m[key] < Len(d)

\* feature_impl::has_key
has_key(m, d, key) == key \in DOMAIN m

\* mutant of get_index: index <= data_.size(); -1 stands for what is read past the end
get_index_offbyone(d, index) ==
    IF index <= Len(d)
    THEN (IF index < Len(d) THEN d[index + 1] ELSE -1)
    ELSE default_value

\* feature_impl::get(std::size_t index)
get_index(d, index) ==
    IF index < Len(d) THEN d[index + 1] ELSE default_value

\* feature_impl::get(key)
get(m, d, key) ==
    IF key \in DOMAIN m THEN get_index(d, m[key]) ELSE default_value

\* feature_impl::size
feature_size(d) == Len(d)

\* feature_impl::set_data
set_data(d, newdata) == newdata

\* feature_impl::id
get_id(i) == i

\* feature_impl::set_id
set_id(i, newid) == newid

\* feature_impl::get_raster
get_raster(ras) == ras

\* feature_impl::set_raster
set_raster(ras, raster) == raster

\* mutant of assign: the member is shared by all features, as a static member is
assign_shared(members, r, member) == [q \in 1..Len(members) |-> member]

\* a member of feature_impl belongs to one object: a write through f changes
\* the member of the r-th feature only
assign(members, r, member) == [members EXCEPT ![r] = member]

\* raster_ptr(): the shared pointer that holds no raster; rasters are 1, 2, ...
no_raster == 0

\* value == value_null(): true of the null value only
is_null(v) == v = default_value

\* operator<< of a value: its text
format(v) == ToString(v)

\* mutant of entries: the names in the order of their indices, which is the
\* order of insertion when the context is filled by push
RECURSIVE entries_by_index(_, _)
entries_by_index(m, S) ==
    IF S = {}
    THEN <<>>
    ELSE LET k == CHOOSE x \in S :
                    \A y \in S : m[x] < m[y] \/ (m[x] = m[y] /\ x <= y)
         IN  <<k>> \o entries_by_index(m, S \ {k})

\* the names S of mapping_ from begin() to end(): std::map iterates in key order
RECURSIVE entries(_, _)
entries(m, S) ==
    IF S = {}
    THEN <<>>
    ELSE LET k == CHOOSE x \in S : \A y \in S : x <= y
         IN  <<k>> \o entries(m, S \ {k})

\* the lines of the text: kind is the text before the first field
header(id) == [kind |-> "Feature ( id=", name |-> id, text |-> ""]
attribute(name, text) == [kind |-> "  ", name |-> name, text |-> text]
footer == [kind |-> ")", name |-> 0, text |-> ""]

\* feature_impl::to_string: the loop over the entries keys
RECURSIVE attribute_lines(_, _, _)
attribute_lines(m, d, keys) ==
    IF keys = <<>>
    THEN <<>>
    ELSE LET index == m[Head(keys)]
             rest  == attribute_lines(m, d, Tail(keys))
         IN  IF index < Len(d)
             THEN IF is_null(d[index + 1])
                  THEN <<attribute(Head(keys), "null")>> \o rest
                  ELSE <<attribute(Head(keys), format(d[index + 1]))>> \o rest
             ELSE rest

\* feature_impl::to_string: the lines written
to_string(m, d, id) ==
    <<header(id)>> \o attribute_lines(m, d, entries(m, DOMAIN m)) \o <<footer>>

\* a box2d<double> is <<minx, miny, maxx, maxy>>
\* box2d(): the box of no geometry
empty_box == <<0, 0, -1, -1>>

Min(a, b) == IF a < b THEN a ELSE b
Max(a, b) == IF a > b THEN a ELSE b

\* box2d::init(x0, y0, x1, y1)
init(x0, y0, x1, y1) == <<Min(x0, x1), Min(y0, y1), Max(x0, x1), Max(y0, y1)>>

\* box2d::expand_to_include(other)
expand_to_include(box, other) ==
    <<Min(box[1], other[1]), Min(box[2], other[2]),
      Max(box[3], other[3]), Max(box[4], other[4])>>

\* a geometry_type is modelled by what geometry_type::envelope() returns for it
Coords == 0..MaxCoord
Geometries ==
    {<<x0, y0, x1, y1>> : x0 \in Coords, y0 \in Coords, x1 \in Coords, y1 \in Coords}
    \ {b \in Coords \X Coords \X Coords \X Coords : b[1] > b[3] \/ b[2] > b[4]}

\* mutant of envelope_loop: every geometry, the first too, is united with the result
RECURSIVE envelope_loop_expand(_, _, _)
envelope_loop_expand(gs, i, result) ==
    IF i >= Len(gs)
    THEN result
    ELSE envelope_loop_expand(gs, i + 1, expand_to_include(result, gs[i + 1]))

\* feature_impl::envelope: the loop from geometry i on, result being the box so far
RECURSIVE envelope_loop(_, _, _)
envelope_loop(gs, i, result) ==
    IF i >= Len(gs)
    THEN result
    ELSE IF i = 0
         THEN envelope_loop(gs, i + 1, init(gs[1][1], gs[1][2], gs[1][3], gs[1][4]))
         ELSE envelope_loop(gs, i + 1, expand_to_include(result, gs[i + 1]))

\* feature_impl::envelope
envelope(gs) == envelope_loop(gs, 0, empty_box)

\* feature_impl::add_geometry
add_geometry(gs, geom) == Append(gs, geom)

\* feature_impl::num_geometries
num_geometries(gs) == Len(gs)

\* feature_impl::get_geometry: what the call can do. geom_cont_[index] is
\* boost::ptr_vector::operator[], which does not check the index: out of range
\* it is undefined, the build either stops at BOOST_ASSERT or reads a pointer
\* past the end and returns whatever it points to. No exception is thrown.
get_geometry(gs, index) ==
    IF index < Len(gs)
    THEN {[threw |-> FALSE, aborted |-> FALSE, geom |-> gs[index + 1]]}
    ELSE {[threw |-> FALSE, aborted |-> TRUE, geom |-> <<>>]}
         \cup {[threw |-> FALSE, aborted |-> FALSE, geom |-> g] : g \in Geometries}

\* ---------------------------------------------------------------------------
\* the state machine
\* ---------------------------------------------------------------------------

Recs == 1..Len(data)

\* the vectors a caller passes to set_data
Vectors == UNION {[1..n -> Values] : n \in 0..MaxLen}

\* a thread that is in no call
NoArgs == [op |-> "none", name |-> 0, val |-> 0, had |-> FALSE, psize |-> 0]

\* the call thread t begins: had = the name is found in mapping_ and psize =
\* mapping_.size() when the call begins
Args(op, name, val, m, sk) ==
    [op |-> op, name |-> name, val |-> val, had |-> name \in DOMAIN m,
     psize |-> size(m) + sk]

NoCall == [op |-> "init", rec |-> 0, key |-> 0, val |-> 0, ret |-> 0,
           threw |-> FALSE, had |-> FALSE, psize |-> 0, plen |-> 0, out |-> <<>>]

\* the record of a call: had = the key was in mapping_ when the call started,
\* psize = mapping_.size() and plen = data_.size() when the call started,
\* out = the object returned, for the calls that return a text, a box or a geometry
Call(op, r, key, val, ret, threw) ==
    [op |-> op, rec |-> r, key |-> key, val |-> val, ret |-> ret,
     threw |-> threw, had |-> key \in DOMAIN mapping, psize |-> size(mapping),
     plen |-> IF r \in Recs THEN Len(data[r]) ELSE 0, out |-> <<>>]

Init ==
    /\ mapping = <<>>
    /\ data = <<>>
    /\ logging = FALSE
    /\ pushLog = <<>>
    /\ last = NoCall
    /\ ids = <<>>
    /\ geoms = <<>>
    /\ rasters = <<>>
    /\ serial = FALSE
    /\ lock = 0
    /\ pc = [t \in Threads |-> "idle"]
    /\ arg = [t \in Threads |-> NoArgs]
    /\ loc = [t \in Threads |-> 0]
    /\ corrupt = FALSE
    /\ chain = <<>>
    /\ calls = 0
    /\ added = FALSE
    /\ skew = 0
    /\ crashed = FALSE

\* feature_ptr f(new feature_impl(ctx, id))
New(id) ==
    /\ Len(data) < MaxRecs
    /\ data' = Append(data, ctor_data(mapping))
    /\ ids' = Append(ids, id)
    /\ geoms' = Append(geoms, <<>>)
    /\ rasters' = Append(rasters, no_raster)
    /\ last' = Call("new", Len(data) + 1, 0, id, 0, FALSE)
    /\ UNCHANGED <<mapping, logging, pushLog, threadVars>>

\* ctx->push(name)
Push(name) ==
    /\ Len(pushLog) < MaxPush
    /\ mapping' = push_map(mapping, name)
    /\ pushLog' = IF logging THEN Append(pushLog, <<name, push_ret(mapping, name)>>)
                             ELSE pushLog
    /\ last' = Call("push", 0, name, 0, push_ret(mapping, name), FALSE)
    /\ UNCHANGED <<data, logging, featVars, threadVars>>

\* ctx->add(name, index)
Add(name, index) ==
    /\ mapping' = add(mapping, name, index)
    /\ last' = Call("add", 0, name, index, 0, FALSE)
    /\ UNCHANGED <<data, logging, pushLog, featVars, threadVars>>

\* f->put(key, val)
Put(r, key, val) ==
    /\ data' = assign(data, r, put(mapping, data[r], key, val).d)
    /\ last' = Call("put", r, key, val, 0, put(mapping, data[r], key, val).threw)
    /\ UNCHANGED <<mapping, logging, pushLog, featVars, threadVars>>

\* f->put_new(key, val)
PutNew(r, key, val) ==
    /\ mapping' = put_new(mapping, data[r], key, val).m
    /\ data' = assign(data, r, put_new(mapping, data[r], key, val).d)
    /\ last' = Call("put_new", r, key, val, 0, FALSE)
    /\ UNCHANGED <<logging, pushLog, featVars, threadVars>>

\* f->has_key(key)
HasKey(r, key) ==
    /\ last' = Call("has_key", r, key, 0,
                    IF has_key(mapping, data[r], key) THEN 1 ELSE 0, FALSE)
    /\ UNCHANGED <<mapping, data, logging, pushLog, featVars, threadVars>>

\* f->get(key)
Get(r, key) ==
    /\ last' = Call("get", r, key, 0, get(mapping, data[r], key), FALSE)
    /\ UNCHANGED <<mapping, data, logging, pushLog, featVars, threadVars>>

\* f->get(index)
GetIndex(r, index) ==
    /\ last' = Call("get_index", r, 0, index, get_index(data[r], index), FALSE)
    /\ UNCHANGED <<mapping, data, logging, pushLog, featVars, threadVars>>

\* f->set_data(newdata)
SetData(r, newdata) ==
    /\ data' = assign(data, r, set_data(data[r], newdata))
    /\ last' = Call("set_data", r, 0, 0, 0, FALSE)
    /\ UNCHANGED <<mapping, logging, pushLog, featVars, threadVars>>

\* f->to_string()
To_string(r) ==
    /\ last' = [Call("to_string", r, 0, 0, 0, FALSE)
                  EXCEPT !.out = to_string(mapping, data[r], ids[r])]
    /\ UNCHANGED <<mapping, data, logging, pushLog, featVars, threadVars>>

\* f->add_geometry(geom)
AddGeometry(r, geom) ==
    /\ Len(geoms[r]) < MaxGeoms
    /\ geoms' = assign(geoms, r, add_geometry(geoms[r], geom))
    /\ last' = Call("add_geometry", r, 0, 0, 0, FALSE)
    /\ UNCHANGED <<mapping, data, logging, pushLog, ids, rasters, threadVars>>

\* f->num_geometries()
NumGeometries(r) ==
    /\ last' = Call("num_geometries", r, 0, 0, num_geometries(geoms[r]), FALSE)
    /\ UNCHANGED <<mapping, data, logging, pushLog, featVars, threadVars>>

\* f->get_geometry(index); ret = 1 when the process was stopped
GetGeometry(r, index) ==
    /\ \E res \in get_geometry(geoms[r], index) :
          last' = [Call("get_geometry", r, 0, index,
                        IF res.aborted THEN 1 ELSE 0, res.threw)
                   EXCEPT !.out = res.geom]
    /\ UNCHANGED <<mapping, data, logging, pushLog, featVars, threadVars>>

\* f->envelope()
Envelope(r) ==
    /\ last' = [Call("envelope", r, 0, 0, 0, FALSE) EXCEPT !.out = envelope(geoms[r])]
    /\ UNCHANGED <<mapping, data, logging, pushLog, featVars, threadVars>>

\* f->set_id(newid)
SetId(r, newid) ==
    /\ ids' = assign(ids, r, set_id(ids[r], newid))
    /\ last' = Call("set_id", r, 0, newid, 0, FALSE)
    /\ UNCHANGED <<mapping, data, logging, pushLog, geoms, rasters, threadVars>>

\* f->id()
Id(r) ==
    /\ last' = Call("id", r, 0, 0, get_id(ids[r]), FALSE)
    /\ UNCHANGED <<mapping, data, logging, pushLog, featVars, threadVars>>

\* f->set_raster(raster)
SetRaster(r, raster) ==
    /\ rasters' = assign(rasters, r, set_raster(rasters[r], raster))
    /\ last' = Call("set_raster", r, 0, raster, 0, FALSE)
    /\ UNCHANGED <<mapping, data, logging, pushLog, ids, geoms, threadVars>>

\* f->get_raster()
GetRaster(r) ==
    /\ last' = Call("get_raster", r, 0, 0, get_raster(rasters[r]), FALSE)
    /\ UNCHANGED <<mapping, data, logging, pushLog, featVars, threadVars>>

Next ==
    \/ \E id \in Ids : New(id)
    \/ \E name \in Names : Push(name)
    \/ \E name \in Names, index \in Indices : Add(name, index)
    \/ \E r \in Recs, key \in Names, val \in Values : Put(r, key, val)
    \/ \E r \in Recs, key \in Names, val \in Values : PutNew(r, key, val)
    \/ \E r \in Recs, key \in Names : HasKey(r, key)
    \/ \E r \in Recs, key \in Names : Get(r, key)
    \/ \E r \in Recs, index \in Indices : GetIndex(r, index)
    \/ \E r \in Recs, newdata \in Vectors : SetData(r, newdata)
    \/ \E r \in Recs : To_string(r)

Spec == Init /\ [][Next]_vars

\* the schema and its records grown only through push and put_new:
\* no add with a caller-chosen index, no set_data
NextGrowth ==
    \/ \E id \in Ids : New(id)
    \/ \E name \in Names : Push(name)
    \/ \E r \in Recs, key \in Names, val \in Values : Put(r, key, val)
    \/ \E r \in Recs, key \in Names, val \in Values : PutNew(r, key, val)
    \/ \E r \in Recs, key \in Names : HasKey(r, key)
    \/ \E r \in Recs, key \in Names : Get(r, key)
    \/ \E r \in Recs, index \in Indices : GetIndex(r, index)

SpecGrowth == Init /\ [][NextGrowth]_vars

\* a context on which only push is called, every call logged
InitPush ==
    /\ mapping = <<>>
    /\ data = <<>>
    /\ logging = TRUE
    /\ pushLog = <<>>
    /\ last = NoCall
    /\ ids = <<>>
    /\ geoms = <<>>
    /\ rasters = <<>>
    /\ serial = FALSE
    /\ lock = 0
    /\ pc = [t \in Threads |-> "idle"]
    /\ arg = [t \in Threads |-> NoArgs]
    /\ loc = [t \in Threads |-> 0]
    /\ corrupt = FALSE
    /\ chain = <<>>
    /\ calls = 0
    /\ added = FALSE
    /\ skew = 0
    /\ crashed = FALSE

PushNames == 1..NumPushNames

NextPush == \E name \in PushNames : Push(name)

SpecPush == InitPush /\ [][NextPush]_vars

\* a context used alone: push and add, no feature
NextSchema ==
    \/ \E name \in PushNames : Push(name)
    \/ \E name \in PushNames, index \in Indices : Add(name, index)

SpecSchema == Init /\ [][NextSchema]_vars

\* one feature, constructed with id 0 against an empty context
InitGeom ==
    /\ mapping = <<>>
    /\ data = <<ctor_data(<<>>)>>
    /\ logging = FALSE
    /\ pushLog = <<>>
    /\ last = NoCall
    /\ ids = <<0>>
    /\ geoms = <<<<>>>>
    /\ rasters = <<no_raster>>
    /\ serial = FALSE
    /\ lock = 0
    /\ pc = [t \in Threads |-> "idle"]
    /\ arg = [t \in Threads |-> NoArgs]
    /\ loc = [t \in Threads |-> 0]
    /\ corrupt = FALSE
    /\ chain = <<>>
    /\ calls = 0
    /\ added = FALSE
    /\ skew = 0
    /\ crashed = FALSE

\* the geometries of a feature
NextGeom ==
    \/ \E r \in Recs, geom \in Geometries : AddGeometry(r, geom)
    \/ \E r \in Recs : NumGeometries(r)
    \/ \E r \in Recs : Envelope(r)

SpecGeom == InitGeom /\ [][NextGeom]_vars

\* access to the geometries of a feature by index
NextGeomAt ==
    \/ \E r \in Recs, geom \in Geometries : AddGeometry(r, geom)
    \/ \E r \in Recs : NumGeometries(r)
    \/ \E r \in Recs, index \in 0..MaxGeoms : GetGeometry(r, index)

SpecGeomAt == InitGeom /\ [][NextGeomAt]_vars

\* push, put_new and add run by several threads, each thread t on the feature
\* t of the one shared context; line 72 and line 73 are two steps of a thread;
\* the callers either serialize the calls with a lock or use none
InitRace ==
    /\ mapping = <<>>
    /\ data = [t \in Threads |-> ctor_data(<<>>)]
    /\ logging = FALSE
    /\ pushLog = <<>>
    /\ last = NoCall
    /\ ids = [t \in Threads |-> 0]
    /\ geoms = [t \in Threads |-> <<>>]
    /\ rasters = [t \in Threads |-> no_raster]
    /\ serial \in BOOLEAN
    /\ lock = 0
    /\ pc = [t \in Threads |-> "idle"]
    /\ arg = [t \in Threads |-> NoArgs]
    /\ loc = [t \in Threads |-> 0]
    /\ corrupt = FALSE
    /\ chain = <<>>
    /\ calls = 0
    /\ added = FALSE
    /\ skew = 0
    /\ crashed = FALSE

\* mapping_.size() as a thread reads it: the element count the map keeps,
\* which an unsynchronized insert can leave out of step with the entries
race_size(m, sk) == size(m) + sk

\* the pairs of mapping_ in key order
RECURSIVE pairs(_, _)
pairs(m, keys) ==
    IF keys = <<>>
    THEN <<>>
    ELSE <<<<Head(keys), m[Head(keys)]>>>> \o pairs(m, Tail(keys))

\* the sequences that visit some of the elements of q, each once, in any order
walks(q) ==
    UNION {{[i \in 1..n |-> q[f[i]]] :
               f \in {g \in [1..n -> 1..Len(q)] :
                         \A i, j \in 1..n : g[i] = g[j] => i = j}} :
           n \in 0..Len(q)}

\* two threads in a call together with no lock are a data race on mapping_,
\* undefined behaviour, and from then on every insert is undefined: the process
\* dies, or the call returns and has made a node of the pair whether the name
\* was present or not; a search then finds, for any of the names of the nodes
\* made so far, one of the nodes of that name; and the element count is at
\* most one more than before
race_insert(m, sk, ch, name, index) ==
    LET made  == Append(ch, <<name, index>>)
        nodes == {made[i] : i \in 1..Len(made)}
        views == UNION {{f \in [D -> {n[2] : n \in nodes}] :
                            \A k \in D : <<k, f[k]>> \in nodes} :
                        D \in SUBSET {n[1] : n \in nodes}}
    IN  {[m |-> v, skew |-> c - size(v), chain |-> made, crashed |-> FALSE] :
            v \in views, c \in 0..(race_size(m, sk) + 1)}
        \cup {[m |-> m, skew |-> sk, chain |-> ch, crashed |-> TRUE]}

\* an insert into a map no data race has touched: the pair is stored unless
\* the name is present
sole_insert(m, name, index) ==
    {[m |-> insert(m, name, index), skew |-> 0, chain |-> <<>>,
      crashed |-> FALSE]}

\* begin()..end(): the pairs an iteration visits. After a data race the
\* iteration follows whatever links the race left between the nodes made, so
\* it visits any of them in any order, or the process dies in it
begin_end(m, c, ch) ==
    IF c
    THEN {[crashed |-> FALSE, seq |-> w] : w \in walks(ch)}
         \cup {[crashed |-> TRUE, seq |-> <<>>]}
    ELSE {[crashed |-> FALSE, seq |-> pairs(m, entries(m, DOMAIN m))]}

\* mapping_.find(name): after a data race the process can die in the search
find(m, c, name) ==
    {[crashed |-> FALSE, found |-> name \in DOMAIN m]}
    \cup (IF c THEN {[crashed |-> TRUE, found |-> FALSE]} ELSE {})

\* the other threads that have yet to reach mapping_ in the call they are in
InPush(t) == {u \in Threads \ {t} : pc[u] \in {"push", "insert"}}

\* thread t begins a call while others are in theirs: the map is raced on from
\* now, and the nodes made so far are those of the sound map
Enter(t) ==
    /\ ~crashed
    /\ pc[t] = "idle"
    /\ serial => lock = 0
    /\ calls < MaxCalls
    /\ calls' = calls + 1
    /\ corrupt' = (corrupt \/ InPush(t) # {})
    /\ chain' = IF ~corrupt /\ InPush(t) # {}
                THEN pairs(mapping, entries(mapping, DOMAIN mapping))
                ELSE chain

\* thread t enters push(name): size_type index = mapping_.size()
PushRead(t, name) ==
    /\ Enter(t)
    /\ lock' = IF serial THEN t ELSE lock
    /\ pc' = [pc EXCEPT ![t] = "insert"]
    /\ arg' = [arg EXCEPT ![t] = Args("push", name, 0, mapping, skew)]
    /\ loc' = [loc EXCEPT ![t] = push_ret(mapping, name) + skew]
    /\ UNCHANGED <<mapping, data, logging, pushLog, last, featVars, serial,
                   added, skew, crashed>>

\* thread t enters put_new(key, val) on its feature: mapping_.find(key), and
\* the slot is written when the key is found with its index within data_;
\* otherwise the thread goes on to call push(key)
PutNewFind(t, key, val) ==
    /\ Enter(t)
    /\ \E o \in find(mapping, corrupt', key) :
          /\ crashed' = o.crashed
          /\ IF o.crashed
             THEN UNCHANGED <<data, last, pc, arg, lock>>
             ELSE IF o.found /\ mapping[key] < Len(data[t])
                  THEN /\ data' = assign(data, t,
                                     [data[t] EXCEPT ![mapping[key] + 1] = val])
                       /\ last' = [Call("put_new", t, key, val, 0, FALSE)
                                      EXCEPT !.psize = race_size(mapping, skew)]
                       /\ UNCHANGED <<pc, arg, lock>>
                  ELSE /\ pc' = [pc EXCEPT ![t] = "push"]
                       /\ arg' = [arg EXCEPT ![t] = Args("put_new", key, val,
                                                          mapping, skew)]
                       /\ lock' = IF serial THEN t ELSE lock
                       /\ UNCHANGED <<data, last>>
    /\ UNCHANGED <<mapping, logging, pushLog, featVars, serial, loc, added,
                   skew>>

\* thread t, in put_new, calls ctx_->push(key): size_type index = mapping_.size()
PutNewPush(t) ==
    /\ ~crashed
    /\ pc[t] = "push"
    /\ pc' = [pc EXCEPT ![t] = "insert"]
    /\ loc' = [loc EXCEPT ![t] = push_ret(mapping, arg[t].name) + skew]
    /\ UNCHANGED <<mapping, data, logging, pushLog, last, featVars, serial,
                   lock, arg, corrupt, chain, calls, added, skew, crashed>>

\* thread t goes on in push or in add: mapping_.insert(std::make_pair(name,
\* index)), and the call returns, to the caller or to put_new
PushInsert(t) ==
    /\ ~crashed
    /\ pc[t] = "insert"
    /\ \E o \in (IF corrupt
                 THEN race_insert(mapping, skew, chain, arg[t].name, loc[t])
                 ELSE sole_insert(mapping, arg[t].name, loc[t])) :
          /\ mapping' = o.m
          /\ skew' = o.skew
          /\ chain' = o.chain
          /\ crashed' = o.crashed
          /\ last' = IF o.crashed \/ arg[t].op = "put_new"
                     THEN last
                     ELSE [Call(arg[t].op, 0, arg[t].name, arg[t].val,
                                IF arg[t].op = "push" THEN loc[t] ELSE 0, FALSE)
                              EXCEPT !.had = arg[t].had,
                                     !.psize = arg[t].psize]
    /\ IF arg[t].op = "put_new"
       THEN /\ pc' = [pc EXCEPT ![t] = "append"]
            /\ UNCHANGED <<lock, arg, loc>>
       ELSE /\ pc' = [pc EXCEPT ![t] = "idle"]
            /\ lock' = IF serial THEN 0 ELSE lock
            /\ arg' = [arg EXCEPT ![t] = NoArgs]
            /\ loc' = [loc EXCEPT ![t] = 0]
    /\ UNCHANGED <<data, logging, pushLog, featVars, serial, corrupt, calls,
                   added>>

\* thread t, back in put_new: if (index == data_.size()) data_.push_back(val)
PutNewAppend(t) ==
    /\ ~crashed
    /\ pc[t] = "append"
    /\ data' = IF loc[t] = Len(data[t])
               THEN assign(data, t, Append(data[t], arg[t].val))
               ELSE data
    /\ last' = [Call("put_new", t, arg[t].name, arg[t].val, 0, FALSE)
                   EXCEPT !.had = arg[t].had, !.psize = arg[t].psize]
    /\ pc' = [pc EXCEPT ![t] = "idle"]
    /\ lock' = IF serial THEN 0 ELSE lock
    /\ arg' = [arg EXCEPT ![t] = NoArgs]
    /\ loc' = [loc EXCEPT ![t] = 0]
    /\ UNCHANGED <<mapping, logging, pushLog, featVars, serial, corrupt, chain,
                   calls, added, skew, crashed>>

\* thread t enters add(name, index); the insert of line 79 is its next step
AddEnter(t, name, index) ==
    /\ Enter(t)
    /\ lock' = IF serial THEN t ELSE lock
    /\ pc' = [pc EXCEPT ![t] = "insert"]
    /\ arg' = [arg EXCEPT ![t] = Args("add", name, index, mapping, skew)]
    /\ loc' = [loc EXCEPT ![t] = index]
    /\ added' = TRUE
    /\ UNCHANGED <<mapping, data, logging, pushLog, last, featVars, serial,
                   skew, crashed>>

\* with every thread out of its call, the context is iterated from begin() to end()
RaceIterate ==
    /\ ~crashed
    /\ \A t \in Threads : pc[t] = "idle"
    /\ \E o \in begin_end(mapping, corrupt, chain) :
          /\ crashed' = o.crashed
          /\ last' = IF o.crashed
                     THEN last
                     ELSE [Call("begin_end", 0, 0, 0, 0, FALSE)
                              EXCEPT !.psize = race_size(mapping, skew),
                                     !.out = o.seq]
    /\ UNCHANGED <<mapping, data, logging, pushLog, featVars, serial, lock,
                   pc, arg, loc, corrupt, chain, calls, added, skew>>

NextRace ==
    \/ \E t \in Threads, name \in Names : PushRead(t, name)
    \/ \E t \in Threads, key \in Names, val \in Values \ {default_value} :
          PutNewFind(t, key, val)
    \/ \E t \in Threads : PutNewPush(t)
    \/ \E t \in Threads : PushInsert(t)
    \/ \E t \in Threads : PutNewAppend(t)
    \/ \E t \in Threads, name \in Names, index \in Indices : AddEnter(t, name, index)
    \/ RaceIterate

SpecRace == InitRace /\ [][NextRace]_vars

\* two features constructed against the empty context, with ids 0 and MaxId;
\* the first has been given a geometry and a raster
InitFrame ==
    /\ mapping = <<>>
    /\ data = <<ctor_data(<<>>), ctor_data(<<>>)>>
    /\ logging = FALSE
    /\ pushLog = <<>>
    /\ last = NoCall
    /\ ids = <<0, MaxId>>
    /\ geoms = <<add_geometry(<<>>, <<0, 0, MaxCoord, MaxCoord>>), <<>>>>
    /\ rasters = <<set_raster(no_raster, MaxRaster), no_raster>>
    /\ serial = FALSE
    /\ lock = 0
    /\ pc = [t \in Threads |-> "idle"]
    /\ arg = [t \in Threads |-> NoArgs]
    /\ loc = [t \in Threads |-> 0]
    /\ corrupt = FALSE
    /\ chain = <<>>
    /\ calls = 0
    /\ added = FALSE
    /\ skew = 0
    /\ crashed = FALSE

\* writes of attributes, ids and rasters on features that share the context
NextFrame ==
    \/ \E name \in Names : Push(name)
    \/ \E r \in Recs, key \in Names, val \in Values : Put(r, key, val)
    \/ \E r \in Recs, key \in Names, val \in Values : PutNew(r, key, val)
    \/ \E r \in Recs, newid \in Ids : SetId(r, newid)
    \/ \E r \in Recs : Id(r)
    \/ \E r \in Recs, raster \in Rasters : SetRaster(r, raster)
    \/ \E r \in Recs : GetRaster(r)

SpecFrame == InitFrame /\ [][NextFrame]_vars

\* ---------------------------------------------------------------------------
\* properties
\* ---------------------------------------------------------------------------

\* the key of the call resolves to a slot within the record's array
Resolves(m, d, key) == key \in DOMAIN m /\ m[key] < Len(d)

\* C1: put_new on a record whose array is shorter than the schema, for a key
\* that is not in the schema, adds the key to the schema (its size grows by
\* one), leaves every array as it was, and a read of the key on that record
\* then gives the default value.
C1_DroppedWhenBehind ==
    [][(/\ last'.op = "put_new"
        /\ last'.key \notin DOMAIN mapping
        /\ Len(data[last'.rec]) < size(mapping))
       => (/\ last'.key \in DOMAIN mapping'
           /\ size(mapping') = size(mapping) + 1
           /\ data' = data
           /\ get(mapping', data'[last'.rec], last'.key) = default_value)]_vars

\* a non-null value was written with put_new to a record behind the schema
C1_Witness ==
    /\ last.op = "put_new"
    /\ ~last.had
    /\ last.plen < last.psize
    /\ last.val # default_value
    /\ Len(data[last.rec]) = last.plen
    /\ size(mapping) = last.psize + 1
    /\ get(mapping, data[last.rec], last.key) = default_value

\* C2: put_new for a key that is not in the schema, on a record whose array is
\* as long as the schema, grows the schema by one entry and the array by one
\* slot, and a read of the key on that record then gives the value written.
C2_GrowsWhenAligned ==
    [][(/\ last'.op = "put_new"
        /\ last'.key \notin DOMAIN mapping
        /\ Len(data[last'.rec]) = size(mapping))
       => (/\ size(mapping') = size(mapping) + 1
           /\ Len(data'[last'.rec]) = Len(data[last'.rec]) + 1
           /\ SubSeq(data'[last'.rec], 1, Len(data[last'.rec])) = data[last'.rec]
           /\ get(mapping', data'[last'.rec], last'.key) = last'.val)]_vars

\* a non-null value was written with put_new to an aligned record and is read back
C2_Witness ==
    /\ last.op = "put_new"
    /\ ~last.had
    /\ last.plen = last.psize
    /\ last.psize >= 1
    /\ last.val # default_value
    /\ Len(data[last.rec]) = last.plen + 1
    /\ get(mapping, data[last.rec], last.key) = last.val

\* C3: put throws exactly when the key is not in the schema or its index is
\* not below the record's array length; when it throws, the arrays and the
\* schema are unchanged; otherwise the slot holds the value and only that
\* record's array may have changed.
C3_StrictPut ==
    [][last'.op = "put"
       => LET r   == last'.rec
              key == last'.key
              ok  == key \in DOMAIN mapping /\ mapping[key] < Len(data[r])
          IN  /\ last'.threw <=> ~ok
              /\ mapping' = mapping
              /\ ~ok => data' = data
              /\ ok => /\ data'[r][mapping[key] + 1] = last'.val
                       /\ Len(data'[r]) = Len(data[r])]_vars

\* put has thrown for a key that is in the schema but out of the record's bounds
C3_Witness ==
    /\ last.op = "put"
    /\ last.threw
    /\ last.had
    /\ mapping[last.key] >= Len(data[last.rec])

\* every array is at most as long as the schema
LenLeSize(m, ds) == \A r \in 1..Len(ds) : Len(ds[r]) <= size(m)

\* every index stored in the schema is below the schema's size
IndicesBelowSize(m) == \A k \in DOMAIN m : m[k] < size(m)

\* C4 as stated: in every reachable state every record's array is at most as
\* long as the schema.
C4_LenLeSizeAlways == LenLeSize(mapping, data)

\* C4 as amended: a call other than set_data, made when every array is at most
\* as long as the schema and every stored index is below the schema's size,
\* leaves every array at most as long as the schema.
C4_LenLeSizePreserved ==
    [][(/\ LenLeSize(mapping, data)
        /\ IndicesBelowSize(mapping)
        /\ last'.op # "set_data")
       => LenLeSize(mapping', data')]_vars

\* put_new has grown a record together with the schema while another record
\* stays behind
C4_Witness ==
    /\ last.op = "put_new"
    /\ ~last.had
    /\ last.plen = last.psize
    /\ Len(data[last.rec]) = size(mapping)
    /\ size(mapping) = last.psize + 1
    /\ IndicesBelowSize(mapping)
    /\ \E r \in Recs : Len(data[r]) < size(mapping)

\* the indices stored are pairwise different and are exactly 0..size()-1
Dense(m) ==
    /\ \A j, k \in DOMAIN m : m[j] = m[k] => j = k
    /\ {m[k] : k \in DOMAIN m} = 0..(size(m) - 1)

\* C5 as stated: in every reachable state the names have pairwise different
\* indices and the indices are exactly 0..size()-1.
C5_DenseAlways == Dense(mapping)

\* C5 as amended: push and put_new give a new name the index size() and keep
\* every other entry, and no call other than add changes the schema otherwise;
\* so a schema whose indices are unique and exactly 0..size()-1 stays so under
\* every call but add.
C5_DensePreserved ==
    [][last'.op # "add"
       => /\ \/ mapping' = mapping
             \/ /\ last'.op \in {"push", "put_new"}
                /\ last'.key \notin DOMAIN mapping
                /\ DOMAIN mapping' = DOMAIN mapping \cup {last'.key}
                /\ mapping'[last'.key] = size(mapping)
                /\ \A k \in DOMAIN mapping : mapping'[k] = mapping[k]
          /\ Dense(mapping) => Dense(mapping')]_vars

\* the schema has been grown to two names or more and its indices are dense
C5_Witness ==
    /\ last.op \in {"push", "put_new"}
    /\ ~last.had
    /\ last.psize >= 1
    /\ size(mapping) = last.psize + 1
    /\ mapping[last.key] = last.psize
    /\ Dense(mapping)

\* the names of the logged calls of push are pairwise different
DistinctPushes ==
    \A i, j \in 1..Len(pushLog) : pushLog[i][1] = pushLog[j][1] => i = j

\* C6: when pairwise distinct names are pushed into an empty context, the i-th
\* push (counted from 0) returns index i and stores it, and size() is the
\* number of pushes made.
C6_PushOrder ==
    DistinctPushes
    => /\ size(mapping) = Len(pushLog)
       /\ \A i \in 1..Len(pushLog) :
            /\ pushLog[i][2] = i - 1
            /\ pushLog[i][1] \in DOMAIN mapping
            /\ mapping[pushLog[i][1]] = i - 1

\* three distinct names have been pushed
C6_Witness ==
    /\ logging
    /\ Len(pushLog) >= 3
    /\ DistinctPushes
    /\ last.op = "push"
    /\ last.ret = Len(pushLog) - 1

\* C7: push or add of a name that is already in the schema leaves the schema,
\* its size and every stored index, as it was.
C7_ReRegisterKeeps ==
    [][(last'.op \in {"push", "add"} /\ last'.key \in DOMAIN mapping)
       => (/\ mapping' = mapping
           /\ size(mapping') = size(mapping))]_vars

\* add was called for a present name with an index other than the stored one
C7_Witness ==
    /\ last.op = "add"
    /\ last.had
    /\ last.val # mapping[last.key]
    /\ size(mapping) = last.psize

\* C8: get(key) and get(index) do not throw and change nothing; they return
\* the default value when the key is not in the schema or the index is not
\* below the array length, and the value in the slot otherwise.
C8_SafeRead ==
    [][last'.op \in {"get", "get_index"}
       => LET d == data[last'.rec]
              known == last'.op = "get_index" \/ last'.key \in DOMAIN mapping
              index == IF last'.op = "get_index" THEN last'.val
                       ELSE IF known THEN mapping[last'.key] ELSE 0
          IN  /\ ~last'.threw
              /\ mapping' = mapping
              /\ data' = data
              /\ last'.ret = IF known /\ index < Len(d)
                             THEN d[index + 1] ELSE default_value]_vars

\* get(key) gave the default value for a key of the schema whose slot is out
\* of this record's bounds, while another record holds a non-null value there
C8_Witness ==
    /\ last.op = "get"
    /\ last.had
    /\ mapping[last.key] >= Len(data[last.rec])
    /\ last.ret = default_value
    /\ \E r \in Recs : get(mapping, data[r], last.key) # default_value

\* C9: has_key(key) is true exactly when the key is in the schema; after
\* put_new for a key that did not resolve on its record, has_key(key) is true
\* on every record.
C9_HasKeySchemaOnly ==
    [][/\ last'.op = "has_key"
          => (last'.ret = 1 <=> last'.key \in DOMAIN mapping)
       /\ (last'.op = "put_new"
           /\ ~Resolves(mapping, data[last'.rec], last'.key))
          => \A r \in 1..Len(data') :
                has_key(mapping', data'[r], last'.key)]_vars

\* put_new on one record has registered a key and stored a non-null value for
\* it; on another record has_key is true for the key, put would throw and get
\* gives the default value
C9_Witness ==
    /\ last.op = "put_new"
    /\ ~last.had
    /\ last.val # default_value
    /\ get(mapping, data[last.rec], last.key) = last.val
    /\ \E r \in Recs \ {last.rec} :
          /\ has_key(mapping, data[r], last.key)
          /\ put(mapping, data[r], last.key, last.val).threw
          /\ get(mapping, data[r], last.key) = default_value

\* C10: push returns the size of the schema as it was before the call,
\* whether or not the name was present.
C10_PushReturnsOldSize ==
    [][last'.op = "push" => last'.ret = size(mapping)]_vars

\* push of a present name has returned an index other than the stored one
C10_Witness ==
    /\ last.op = "push"
    /\ last.had
    /\ last.ret = last.psize
    /\ last.ret # mapping[last.key]

\* C11: to_string writes the header with the id, then one line for each name
\* of the schema whose index is below the array length, in ascending order of
\* the names, with "null" for a null value and the value's text otherwise,
\* then the closing line; a name whose index is out of bounds has no line.
C11_TextForm ==
    [][last'.op = "to_string"
       => LET out == last'.out
              d   == data[last'.rec]
              inb == {k \in DOMAIN mapping : mapping[k] < Len(d)}
          IN  /\ Len(out) = Cardinality(inb) + 2
              /\ out[1] = [kind |-> "Feature ( id=", name |-> ids[last'.rec],
                           text |-> ""]
              /\ out[Len(out)] = [kind |-> ")", name |-> 0, text |-> ""]
              /\ \A i \in 2..(Len(out) - 1) :
                    /\ out[i].kind = "  "
                    /\ out[i].name \in inb
                    /\ out[i].text =
                         IF d[mapping[out[i].name] + 1] = default_value
                         THEN "null"
                         ELSE ToString(d[mapping[out[i].name] + 1])
              /\ \A i, j \in 2..(Len(out) - 1) :
                    i < j => out[i].name < out[j].name
              /\ mapping' = mapping /\ data' = data]_vars

\* the text of a feature whose second name was registered before its first
\* one, with a null and a non-null value
C11_Witness ==
    /\ last.op = "to_string"
    /\ Len(last.out) = 4
    /\ mapping[2] < mapping[1]
    /\ last.out[2].name = 1
    /\ last.out[3].name = 2
    /\ \E i, j \in 2..3 : last.out[i].text = "null" /\ last.out[j].text = "1"

\* the least and the greatest of a non-empty set of numbers
Least(S) == CHOOSE x \in S : \A y \in S : x <= y
Greatest(S) == CHOOSE x \in S : \A y \in S : x >= y

\* C12: envelope() returns the box of no geometry when the feature has none,
\* and otherwise the least minx and miny and the greatest maxx and maxy of its
\* geometries' boxes (for one geometry, its box), whatever the order in which
\* they were added; the call changes nothing.
C12_EnvelopeIsUnion ==
    [][last'.op = "envelope"
       => LET gs == geoms[last'.rec]
              I  == 1..Len(gs)
          IN  /\ geoms' = geoms
              /\ last'.out =
                   IF Len(gs) = 0
                   THEN <<0, 0, -1, -1>>
                   ELSE <<Least({gs[i][1] : i \in I}), Least({gs[i][2] : i \in I}),
                          Greatest({gs[i][3] : i \in I}),
                          Greatest({gs[i][4] : i \in I})>>]_vars

\* the envelope of two geometries neither of whose boxes holds the other
C12_Witness ==
    /\ last.op = "envelope"
    /\ Len(geoms[last.rec]) = 2
    /\ last.out # geoms[last.rec][1]
    /\ last.out # geoms[last.rec][2]
    /\ geoms[last.rec][1][1] > 0

\* C14: get_geometry(index) with index >= num_geometries() fails with an
\* exception and does nothing else; with index < num_geometries() it returns
\* the geometry added index-th.
C14_GeometryAtChecked ==
    last.op = "get_geometry"
    => IF last.val < Len(geoms[last.rec])
       THEN /\ ~last.threw
            /\ last.ret = 0
            /\ last.out = geoms[last.rec][last.val + 1]
       ELSE /\ last.threw
            /\ last.ret = 0

\* C13: a feature constructed against a schema of size K has size() = K and
\* every slot reads as the default value; push and add on the context, and
\* put_new on another feature, leave its array, so its size(), as it was.
C13_CtorSnapshot ==
    [][/\ last'.op = "new"
          => LET r == last'.rec
             IN  /\ r = Len(data) + 1
                 /\ Len(data') = r
                 /\ \A q \in 1..Len(data) : data'[q] = data[q]
                 /\ feature_size(data'[r]) = size(mapping)
                 /\ \A i \in 0..(size(mapping) - 1) :
                       get_index(data'[r], i) = default_value
                 /\ \A k \in DOMAIN mapping :
                       mapping[k] < size(mapping)
                       => get(mapping, data'[r], k) = default_value
       /\ last'.op \in {"push", "add"} => data' = data
       /\ last'.op = "put_new"
          => \A q \in 1..Len(data) :
                q # last'.rec => feature_size(data'[q]) = feature_size(data[q])]_vars

\* the context has grown by a push after a feature was constructed against a
\* non-empty schema; the feature has the size it was constructed with
C13_Witness ==
    /\ last.op = "push"
    /\ ~last.had
    /\ last.psize >= 1
    /\ size(mapping) = last.psize + 1
    /\ \E r \in Recs :
          /\ feature_size(data[r]) = last.psize
          /\ \A i \in 1..Len(data[r]) : data[r][i] = default_value

\* two names of the schema have the same index
SharedIndex(m) == \E j, k \in DOMAIN m : j # k /\ m[j] = m[k]

\* C15: when threads run push, directly or from put_new, with the read of the
\* size and the insert as two steps, two names that push has stored have one
\* index only if the callers do not serialize the calls, and without
\* serialization such a state is reached; serialized calls never race on the
\* map. The index add stores is the caller's, so runs with add are set aside
\* in the first part.
C15_SharedIndexOnlyUnserialized ==
    /\ (SharedIndex(mapping) /\ ~added) => ~serial
    /\ serial => (~corrupt /\ ~crashed /\ skew = 0)

\* two threads have read the same size and have each inserted another name,
\* the second of them from put_new, which has appended its value at that index
C15_Witness ==
    /\ ~serial
    /\ ~added
    /\ ~crashed
    /\ last.op = "put_new"
    /\ SharedIndex(mapping)
    /\ ~last.had
    /\ last.key \in DOMAIN mapping
    /\ mapping[last.key] = last.psize
    /\ \E k \in DOMAIN mapping : k # last.key /\ mapping[k] = mapping[last.key]
    /\ last.val # default_value
    /\ get(mapping, data[last.rec], last.key) = last.val

\* C16: put_new for a key that resolves to a slot within the feature's array
\* does what put does: that slot gets the value, every other slot, the array
\* length, the other features and the schema stay as they were.
C16_PutNewInBoundsIsPut ==
    [][(/\ last'.op = "put_new"
        /\ last'.key \in DOMAIN mapping
        /\ mapping[last'.key] < Len(data[last'.rec]))
       => LET r == last'.rec
              slot == mapping[last'.key] + 1
          IN  /\ mapping' = mapping
              /\ ~put(mapping, data[r], last'.key, last'.val).threw
              /\ data'[r] = put(mapping, data[r], last'.key, last'.val).d
              /\ Len(data'[r]) = Len(data[r])
              /\ data'[r][slot] = last'.val
              /\ \A i \in 1..Len(data[r]) : i # slot => data'[r][i] = data[r][i]
              /\ \A q \in 1..Len(data) : q # r => data'[q] = data[q]]_vars

\* put_new has overwritten a slot that held another value, in a schema of two
\* names
C16_Witness ==
    /\ last.op = "put_new"
    /\ last.had
    /\ last.psize = 2
    /\ size(mapping) = 2
    /\ last.plen = Len(data[last.rec])
    /\ mapping[last.key] < last.plen
    /\ last.val # default_value
    /\ data[last.rec][mapping[last.key] + 1] = last.val

\* C17: the schema only grows: no call removes a name, changes the index
\* stored for a name, or makes the size smaller.
C17_SchemaOnlyGrows ==
    [][/\ size(mapping') >= size(mapping)
       /\ \A k \in DOMAIN mapping :
             k \in DOMAIN mapping' /\ mapping'[k] = mapping[k]]_vars

\* put_new has pushed a name that was in the schema with an index out of the
\* feature's bounds; the name has kept its index, not the one push computed
C17_Witness ==
    /\ last.op = "put_new"
    /\ last.had
    /\ mapping[last.key] >= last.plen
    /\ mapping[last.key] # last.psize
    /\ size(mapping) = last.psize

\* C18: with the schema grown only by push and put_new, a feature whose array
\* is shorter than the schema stays so and keeps its length under every later
\* call, and put_new on it for a key that does not resolve leaves every array
\* as it was: the value is dropped.
C18_DesyncPermanent ==
    [][/\ \A r \in 1..Len(data) :
             Len(data[r]) < size(mapping)
             => /\ Len(data'[r]) = Len(data[r])
                /\ Len(data'[r]) < size(mapping')
       /\ (/\ last'.op = "put_new"
           /\ Len(data[last'.rec]) < size(mapping)
           /\ ~Resolves(mapping, data[last'.rec], last'.key))
          => /\ data' = data
             /\ get(mapping', data'[last'.rec], last'.key) = default_value]_vars

\* put_new of a non-null value was dropped on a feature behind the schema, for
\* a key that another feature had registered before
C18_Witness ==
    /\ last.op = "put_new"
    /\ last.had
    /\ last.plen < last.psize
    /\ mapping[last.key] >= last.plen
    /\ last.val # default_value
    /\ Len(data[last.rec]) = last.plen
    /\ size(mapping) = last.psize
    /\ get(mapping, data[last.rec], last.key) = default_value
    /\ \E q \in Recs : get(mapping, data[q], last.key) # default_value

\* C19: put and put_new on one feature leave the array, the id, the
\* geometries and the raster of every other feature as they were.
C19_OtherFeaturesKept ==
    [][last'.op \in {"put", "put_new"}
       => /\ Len(data') = Len(data)
          /\ \A q \in 1..Len(data) :
                q # last'.rec
                => /\ data'[q] = data[q]
                   /\ ids'[q] = ids[q]
                   /\ geoms'[q] = geoms[q]
                   /\ rasters'[q] = rasters[q]]_vars

\* put_new has stored a non-null value in one feature while another feature,
\* with another id, a geometry and a raster, reads the default value there
C19_Witness ==
    /\ last.op = "put_new"
    /\ last.val # default_value
    /\ get(mapping, data[last.rec], last.key) = last.val
    /\ \E q \in Recs :
          /\ q # last.rec
          /\ ids[q] # ids[last.rec]
          /\ geoms[q] # <<>>
          /\ rasters[q] # no_raster
          /\ get(mapping, data[q], last.key) = default_value

\* the call stores its value: put that does not throw, put_new whose key
\* resolves within the array or whose array is as long as the schema
Stores(op, threw, m, d, key) ==
    \/ op = "put" /\ ~threw
    \/ op = "put_new" /\ (Resolves(m, d, key) \/ Len(d) = size(m))

\* the slot such a call writes: the key's slot when it resolves within the
\* array, the slot appended at the end otherwise
SlotWritten(m, d, key) == IF Resolves(m, d, key) THEN m[key] ELSE Len(d)

\* read(key) gives val and the read of every other name of the schema is as before
Isolated(m, d, m2, d2, key, val) ==
    /\ get(m2, d2, key) = val
    /\ \A k \in DOMAIN m2 \ {key} : get(m2, d2, k) = get(m, d, k)

\* C20 as stated: after a put or a put_new that stores val, get(key) gives val
\* and get(k) is as it was for every other name k of the schema, whatever calls
\* of add filled the schema.
C20_IsolatedAlways ==
    [][(/\ last'.op \in {"put", "put_new"}
        /\ Stores(last'.op, last'.threw, mapping, data[last'.rec], last'.key))
       => Isolated(mapping, data[last'.rec], mapping', data'[last'.rec],
                   last'.key, last'.val)]_vars

\* C20 as amended: after a put or a put_new that stores val, every name whose
\* index is the slot written reads val and every other name reads what it read
\* before; the key's index is the slot written when the key resolved within
\* the array or was not in the schema; and in a schema whose indices are
\* pairwise different and exactly 0..size()-1, get(key) gives val and every
\* other name reads what it read before.
C20_IsolatedBySlot ==
    [][(/\ last'.op \in {"put", "put_new"}
        /\ Stores(last'.op, last'.threw, mapping, data[last'.rec], last'.key))
       => LET r    == last'.rec
              key  == last'.key
              slot == SlotWritten(mapping, data[r], key)
          IN  /\ \A k \in DOMAIN mapping' :
                    get(mapping', data'[r], k) =
                        IF mapping'[k] = slot
                        THEN last'.val
                        ELSE get(mapping, data[r], k)
              /\ (Resolves(mapping, data[r], key) \/ key \notin DOMAIN mapping)
                 => mapping'[key] = slot
              /\ Dense(mapping)
                 => Isolated(mapping, data[r], mapping', data'[r],
                             key, last'.val)]_vars

\* put_new has stored a non-null value for a key while another name of the
\* schema, with another index, still reads the non-null value written before
C20_Witness ==
    /\ last.op = "put_new"
    /\ last.val # default_value
    /\ last.had
    /\ get(mapping, data[last.rec], last.key) = last.val
    /\ \E k \in DOMAIN mapping :
          /\ k # last.key
          /\ mapping[k] # mapping[last.key]
          /\ get(mapping, data[last.rec], k) # default_value

====
